---- MODULE Spec2Model ----
(***************************************************************************)
(* The deployment-time initializer of example-ecs.                         *)
(*                                                                         *)
(* CdkResourceInitializer (lib/RDSInit) declares an AwsCustomResource      *)
(* whose onUpdate call invokes the ResourceInitializerFn Lambda with a     *)
(* JSON payload, under a physical resource id made of the function's       *)
(* current version and the first six hex digits of the payload's md5.      *)
(* ExampleFargateStack.createServerlessRDS constructs it.                  *)
(*                                                                         *)
(* The state machine below is one logical custom resource as the           *)
(* provisioning engine drives it: construction of the stack (synthesis),   *)
(* deployment (create / update events to the custom resource's handler),   *)
(* completion of the Lambda invocation, delete events, and readers of      *)
(* the published response field.                                           *)
(***************************************************************************)
EXTENDS Naturals, Sequences, FiniteSets, TLC

\* Bounds of the model.
MaxPasses == 2
MaxVersion == 2

\* ------------------------------------------------------------------------
\* Values
\* ------------------------------------------------------------------------

\* createServerlessRDS: new CdkResourceInitializer(this, 'Initializer', ...)
ConstructId == "Initializer"

\* The enclosing stack's name (Stack.of(this).stackName).
StackName == "ExampleFargateStack"

\* rdsCluster.secret may be undefined.
Undefined == "<undefined>"

\* Names the admin secret (rdsAdminSecret.secretName) can take.
AdminSecretNames == {"a", "e"}

\* Names the application secret (rdsAppSecret.secretName) can take.
AppSecretNames == {"b", "app3975406"}

\* A props.config object is its properties in insertion order.
\* createServerlessRDS writes credsSecretName first, dbSecretName second.
StackConfig(creds, db) ==
    << <<"credsSecretName", creds>>, <<"dbSecretName", db>> >>

\* A CdkResourceInitializerProps.config literal written in the other order.
ReorderedConfig(creds, db) ==
    << <<"dbSecretName", db>>, <<"credsSecretName", creds>> >>

\* Every config a caller of the constructor can pass (within the names).
Configs ==
    { StackConfig(c, d) : c \in AdminSecretNames, d \in AppSecretNames }
    \cup { ReorderedConfig(c, d) : c \in AdminSecretNames, d \in AppSecretNames }

NoConfig == << >>

\* The key/value pairs of a config, order forgotten (structural equality).
Pairs(config) == { config[i] : i \in 1..Len(config) }

\* ------------------------------------------------------------------------
\* Pure functions of the constructor
\* ------------------------------------------------------------------------

\* JSON.stringify of an object of string properties: the properties in
\* insertion order, "key":"value", comma separated, in braces.
RECURSIVE StringifyProperties(_)
StringifyProperties(obj) ==
    IF Len(obj) = 0 THEN ""
    ELSE "\"" \o obj[1][1] \o "\":\"" \o obj[1][2] \o "\""
         \o (IF Len(obj) > 1 THEN "," ELSE "")
         \o StringifyProperties(Tail(obj))

JSONstringify(obj) == "{" \o StringifyProperties(obj) \o "}"

\* const payload = JSON.stringify({ params: { config: props.config } })
Payload(config) ==
    "{\"params\":{\"config\":" \o JSONstringify(config) \o "}}"

\* createHash('md5').update(data).digest('hex'): the md5 digests of the
\* payloads of Configs.
md5Hex(data) ==
    CASE data = "{\"params\":{\"config\":{\"credsSecretName\":\"a\",\"dbSecretName\":\"b\"}}}" -> "1d759c720793e5fdd90e486eb6cbbfb7"
      [] data = "{\"params\":{\"config\":{\"dbSecretName\":\"b\",\"credsSecretName\":\"a\"}}}" -> "445dc3d24be2a52fb1819b7670d3aec6"
      [] data = "{\"params\":{\"config\":{\"credsSecretName\":\"a\",\"dbSecretName\":\"app3975406\"}}}" -> "1d759cbece68ebb06c850f015c373e03"
      [] data = "{\"params\":{\"config\":{\"dbSecretName\":\"app3975406\",\"credsSecretName\":\"a\"}}}" -> "f07fea9594189c78fabd3b995b692ec4"
      [] data = "{\"params\":{\"config\":{\"credsSecretName\":\"e\",\"dbSecretName\":\"b\"}}}" -> "96fd95da40098a18870253a4261a9aa3"
      [] data = "{\"params\":{\"config\":{\"dbSecretName\":\"b\",\"credsSecretName\":\"e\"}}}" -> "d60b742b1194de629519e2e695b2e804"
      [] data = "{\"params\":{\"config\":{\"credsSecretName\":\"e\",\"dbSecretName\":\"app3975406\"}}}" -> "c755304011d994d27439d4a1588c8184"
      [] data = "{\"params\":{\"config\":{\"dbSecretName\":\"app3975406\",\"credsSecretName\":\"e\"}}}" -> "d1a18c1192c5fdd32253501149ba2b36"

\* .substring(0, 6)
HashPrefixLength == 6

\* const payloadHashPrefix = md5(payload).substring(0, 6)
payloadHashPrefix(payload) == SubSeq(md5Hex(payload), 1, HashPrefixLength)

\* functionName: `${id}-ResInit${stack.stackName}`
FunctionName(id) == id \o "-ResInit" \o StackName

\* A mutant: the version is left out of the id.
PhysicalResourceIdWithoutVersion(id, version, payload) ==
    id \o "-AwsSdkCall-" \o payloadHashPrefix(payload)

\* PhysicalResourceId.of(
\*   `${id}-AwsSdkCall-${fn.currentVersion.version + payloadHashPrefix}`)
PhysicalResourceId(id, version, payload) ==
    id \o "-AwsSdkCall-" \o ToString(version) \o payloadHashPrefix(payload)

\* An AwsSdkCall that is not given (onDelete here).
UndefinedCall ==
    [service |-> "", action |-> "", FunctionName |-> "", Payload |-> "",
     physicalResourceId |-> ""]

IsDefined(call) == call # UndefinedCall

\* const sdkCall: AwsSdkCall = { service: 'Lambda', action: 'invoke', ... }
sdkCall(id, config, version) ==
    [service |-> "Lambda", action |-> "invoke",
     FunctionName |-> FunctionName(id),
     Payload |-> Payload(config),
     physicalResourceId |-> PhysicalResourceId(id, version, Payload(config))]

\* A mutant: the call is also given as onDelete.
ResourcePropertiesWithOnDelete(call) ==
    [Create |-> call, Update |-> call, Delete |-> call]

\* new AwsCustomResource(..., { onUpdate: sdkCall }): the resource's
\* properties. onCreate defaults to onUpdate; onDelete is not given.
ResourceProperties(call) ==
    [Create |-> call, Update |-> call, Delete |-> UndefinedCall]

NoProperties == ResourceProperties(UndefinedCall)

\* ------------------------------------------------------------------------
\* The Lambda invocation and the custom resource's handler
\* ------------------------------------------------------------------------

\* lambda.Function timeout: Duration.seconds(30)
FunctionTimeoutSeconds == 30

\* AwsCustomResource timeout: Duration.minutes(10)
HandlerTimeoutMinutes == 10

\* What can become of one Lambda invoke issued by the handler:
\*   ok               the function returns its result;
\*   functionError    the function throws: Invoke answers 200 with
\*                    FunctionError set and the error as Payload;
\*   functionTimeout  the function exceeds FunctionTimeoutSeconds: Invoke
\*                    answers 200 with FunctionError set likewise;
\*   apiError         the Invoke request itself is rejected (not
\*                    authorized, throttled, function not found);
\*   noResponse       no answer within HandlerTimeoutMinutes.
Outcomes == {"ok", "functionError", "functionTimeout", "apiError", "noResponse"}

\* The outcomes in which the Action Target failed or did not answer.
ErrorOutcomes == Outcomes \ {"ok"}

NoResult == [StatusCode |-> 0, FunctionError |-> "", Payload |-> ""]

\* The response of Lambda invoke (action: 'invoke') where there is one.
InvokeResponse(call, outcome) ==
    CASE outcome = "ok" ->
           [StatusCode |-> 200, FunctionError |-> "",
            Payload |-> "result:" \o call.Payload]
      [] outcome = "functionError" ->
           [StatusCode |-> 200, FunctionError |-> "Unhandled",
            Payload |-> "{\"errorMessage\":\"initialization failed\"}"]
      [] outcome = "functionTimeout" ->
           [StatusCode |-> 200, FunctionError |-> "Unhandled",
            Payload |-> "{\"errorMessage\":\"Task timed out after "
                        \o ToString(FunctionTimeoutSeconds) \o ".00 seconds\"}"]
      [] OTHER -> NoResult

\* What the handler reports to the engine for the call: FAILED when the
\* SDK call throws or the handler runs out of time, SUCCESS when the SDK
\* call returns a response (the response's FunctionError is not looked at).
HandlerStatus(outcome) ==
    IF outcome \in {"apiError", "noResponse"} THEN "FAILED" ELSE "SUCCESS"

\* The call the handler makes for an event: the event's ResourceProperties
\* entry for its RequestType (Create, Update or Delete).
CallFor(requestType, props) == props[requestType]

VARIABLES
    fnVersion,    \* fn.currentVersion.version as of the last construction
    template,     \* the last construction: status, inputs, sdkCall
    pc,           \* "idle" | "synthesized" (a constructed plan awaits deploy)
    passes,       \* constructions so far
    state,        \* Absent | Pending | Applied | Failed | Removed
    physicalId,   \* the recorded physical resource id ("" when none)
    deployed,     \* the properties last applied, and the inputs they came from
    result,       \* the retained response of the last successful call
    pending,      \* Lambda invocations in flight
    cleanup,      \* replaced physical ids that await their delete event
    pass,         \* what the last deploy did
    invokeCount,  \* Lambda invocations issued so far
    last,         \* the last completed invocation
    history,      \* the first deployed call, whether every deploy repeated it,
                  \* and how the first invocation ended
    deletedIds    \* physical ids for which a delete event was handled

vars == <<fnVersion, template, pc, passes, state, physicalId, deployed, result,
          pending, cleanup, pass, invokeCount, last, history, deletedIds>>

engine == <<state, physicalId, deployed, result, pending, cleanup, invokeCount,
            last, history, deletedIds>>

NoTemplate(status) ==
    [status |-> status, config |-> NoConfig, version |-> 0, call |-> UndefinedCall]

NotDeployed == [props |-> NoProperties, config |-> NoConfig, version |-> 0]

NoSnapshot ==
    [state |-> "Absent", physicalId |-> "", result |-> NoResult,
     deployed |-> NotDeployed, lastCall |-> UndefinedCall]

Snapshot ==
    [state |-> state, physicalId |-> physicalId, result |-> result,
     deployed |-> deployed, lastCall |-> last.call]

Init ==
    /\ fnVersion = 1
    /\ template = NoTemplate("none")
    /\ pc = "idle"
    /\ passes = 0
    /\ state = "Absent"
    /\ physicalId = ""
    /\ deployed = NotDeployed
    /\ result = NoResult
    /\ pending = {}
    /\ cleanup = {}
    /\ pass = [kind |-> "none", issued |-> {}, config |-> NoConfig, version |-> 0,
               call |-> UndefinedCall, before |-> NoSnapshot]
    /\ invokeCount = 0
    /\ last = [n |-> 0, call |-> UndefinedCall, outcome |-> "", status |-> "",
               response |-> NoResult, stateAfter |-> "Absent", before |-> NoSnapshot]
    /\ history = [first |-> UndefinedCall, steady |-> TRUE, firstOutcome |-> ""]
    /\ deletedIds = {}

\* The versions the function can have at a construction: the current one,
\* or the next after a change of the function.
NextVersions == { v \in {fnVersion, fnVersion + 1} : v <= MaxVersion }

\* ------------------------------------------------------------------------
\* Construction
\* ------------------------------------------------------------------------

\* new CdkResourceInitializer(scope, id, props): computes payload, hash
\* prefix and sdkCall, and declares the custom resource.
NewCdkResourceInitializer(id, config, version) ==
    /\ pc = "idle"
    /\ state # "Removed"
    /\ passes < MaxPasses
    /\ passes' = passes + 1
    /\ fnVersion' = version
    /\ template' = [status |-> "ok", config |-> config, version |-> version,
                    call |-> sdkCall(id, config, version)]
    /\ pc' = "synthesized"
    /\ UNCHANGED <<engine, pass>>

\* A mutant: the ReferenceError is raised only after the initializer was
\* constructed, so the plan stands.
createServerlessRDSLateCheck(adminSecret, appSecret, version) ==
    /\ pc = "idle"
    /\ state # "Removed"
    /\ passes < MaxPasses
    /\ IF adminSecret = Undefined
       THEN /\ passes' = passes + 1
            /\ fnVersion' = version
            /\ template' = [status |-> "ConfigurationError",
                            config |-> StackConfig("a", appSecret),
                            version |-> version,
                            call |-> sdkCall(ConstructId, StackConfig("a", appSecret), version)]
            /\ pc' = "synthesized"
            /\ UNCHANGED <<engine, pass>>
       ELSE NewCdkResourceInitializer(ConstructId, StackConfig(adminSecret, appSecret), version)

\* ExampleFargateStack.createServerlessRDS: throws ReferenceError when the
\* cluster has no admin secret, else constructs the initializer with
\* config { credsSecretName, dbSecretName }.
createServerlessRDS(adminSecret, appSecret, version) ==
    /\ pc = "idle"
    /\ state # "Removed"
    /\ passes < MaxPasses
    /\ IF adminSecret = Undefined
       THEN /\ passes' = passes + 1
            /\ template' = NoTemplate("ConfigurationError")
            /\ UNCHANGED <<fnVersion, pc, engine, pass>>
       ELSE NewCdkResourceInitializer(ConstructId, StackConfig(adminSecret, appSecret), version)

\* ------------------------------------------------------------------------
\* Deployment
\* ------------------------------------------------------------------------

\* A mutant: the engine compares physical resource ids only.
PropertiesChangedById(new, old) ==
    new.Update.physicalResourceId # old.Update.physicalResourceId

\* A mutant: every deploy counts as a change.
PropertiesChangedAlways(new, old) == TRUE

\* The engine sends the custom resource an event only when the properties
\* declared for it (the stringified calls) differ from those last applied.
PropertiesChanged(new, old) == new # old

\* A mutant: a deploy is accepted while an operation is in progress.
StackBusyNever == FALSE

\* The engine runs one operation on the stack at a time; an operation
\* lasts until its invocation has ended and the replaced physical id,
\* if any, has had its delete event.
StackBusy == state = "Pending" \/ cleanup # {}

\* The Lambda invocations the handler issues for an event: one when the
\* properties hold a call for the event's RequestType, none otherwise.
Invocations(requestType, props, config, version) ==
    IF IsDefined(CallFor(requestType, props))
    THEN { [n |-> invokeCount + 1, requestType |-> requestType,
            call |-> CallFor(requestType, props), props |-> props,
            config |-> config, version |-> version, from |-> state] }
    ELSE {}

\* One deploy of the constructed plan: rejected while the stack is busy;
\* nothing to do when the properties are unchanged; otherwise a Create
\* (no physical resource yet) or Update event to the handler, which
\* invokes the Lambda and waits.
Deploy ==
    /\ pc = "synthesized"
    /\ state # "Removed"
    /\ pc' = "idle"
    /\ LET props == ResourceProperties(template.call)
           requestType == IF physicalId = "" THEN "Create" ELSE "Update"
           issued == Invocations(requestType, props, template.config, template.version)
           record(kind, calls) ==
               [kind |-> kind, issued |-> {c.call.Payload : c \in calls},
                config |-> template.config, version |-> template.version,
                call |-> template.call, before |-> Snapshot]
           noted == [history EXCEPT
                       !.first = IF IsDefined(@) THEN @ ELSE template.call,
                       !.steady = @ /\ (~IsDefined(history.first)
                                         \/ history.first = template.call)]
       IN  IF StackBusy
           THEN /\ pass' = record("rejected", {})
                /\ UNCHANGED engine
           ELSE IF ~PropertiesChanged(props, deployed.props)
           THEN /\ pass' = record("noop", {})
                /\ history' = noted
                /\ UNCHANGED <<state, physicalId, deployed, result, pending,
                               cleanup, invokeCount, last, deletedIds>>
           ELSE /\ pass' = record(requestType, issued)
                /\ history' = noted
                /\ pending' = pending \cup issued
                /\ invokeCount' = invokeCount + Cardinality(issued)
                /\ state' = "Pending"
                /\ UNCHANGED <<physicalId, deployed, result, cleanup, last,
                               deletedIds>>
    /\ UNCHANGED <<fnVersion, template, passes>>

\* A mutant: what the call returned is recorded whatever the status.
RecordedAlways(p, status, response) ==
    [physicalId |-> p.call.physicalResourceId,
     deployed |-> [props |-> p.props, config |-> p.config, version |-> p.version],
     result |-> response]

\* What the engine holds after the handler's report: on SUCCESS the call's
\* physical resource id, the properties and the response data; on FAILED
\* what it held before.
Recorded(p, status, response) ==
    IF status = "SUCCESS"
    THEN [physicalId |-> p.call.physicalResourceId,
          deployed |-> [props |-> p.props, config |-> p.config, version |-> p.version],
          result |-> response]
    ELSE [physicalId |-> physicalId, deployed |-> deployed, result |-> result]

\* The invocation p ends with the given outcome and the handler reports.
\* A physical resource id that was replaced is queued for its delete event.
Complete(p, outcome) ==
    /\ p \in pending
    /\ LET status == HandlerStatus(outcome)
           response == InvokeResponse(p.call, outcome)
           rec == Recorded(p, status, response)
           after == IF status = "SUCCESS" THEN "Applied" ELSE "Failed"
       IN  /\ pending' = pending \ {p}
           /\ state' = after
           /\ physicalId' = rec.physicalId
           /\ deployed' = rec.deployed
           /\ result' = rec.result
           /\ cleanup' = IF physicalId # "" /\ rec.physicalId # physicalId
                         THEN cleanup \cup {[id |-> physicalId, props |-> deployed.props,
                                             config |-> deployed.config,
                                             version |-> deployed.version]}
                         ELSE cleanup
           /\ last' = [n |-> p.n, call |-> p.call, outcome |-> outcome,
                       status |-> status, response |-> response,
                       stateAfter |-> after, before |-> Snapshot]
           /\ history' = [history EXCEPT
                            !.firstOutcome = IF @ = "" THEN outcome ELSE @]
    /\ UNCHANGED <<fnVersion, template, pc, passes, pass, invokeCount, deletedIds>>

\* The delete event for a replaced physical resource id.
DeleteReplaced(old) ==
    /\ old \in cleanup
    /\ state # "Removed"
    /\ LET issued == Invocations("Delete", old.props, old.config, old.version)
       IN  /\ pending' = pending \cup issued
           /\ invokeCount' = invokeCount + Cardinality(issued)
    /\ cleanup' = cleanup \ {old}
    /\ deletedIds' = deletedIds \cup {old.id}
    /\ UNCHANGED <<fnVersion, template, pc, passes, state, physicalId, deployed,
                   result, pass, last, history>>

\* The logical resource is deleted (the stack is destroyed, or the
\* resource is taken out of it): a delete event for what exists.
DeleteResource ==
    /\ state \in {"Absent", "Applied", "Failed"}
    /\ ~StackBusy
    /\ LET issued == Invocations("Delete", deployed.props, deployed.config,
                                 deployed.version)
       IN  /\ pending' = pending \cup issued
           /\ invokeCount' = invokeCount + Cardinality(issued)
    /\ state' = "Removed"
    /\ deletedIds' = deletedIds \cup (IF physicalId = "" THEN {} ELSE {physicalId})
    /\ physicalId' = ""
    /\ deployed' = NotDeployed
    /\ result' = NoResult
    /\ UNCHANGED <<fnVersion, template, pc, passes, cleanup, pass, last, history>>

\* ------------------------------------------------------------------------
\* The published response
\* ------------------------------------------------------------------------

\* A mutant: the field is read from whatever response is retained.
getResponseFieldUngated(name) ==
    IF result # NoResult
    THEN [status |-> "resolved", value |-> result[name]]
    ELSE [status |-> "error", value |-> ""]

\* customResource.getResponseField(name): an attribute of the custom
\* resource, which has a value only once the resource is in place.
getResponseField(name) ==
    IF state = "Applied"
    THEN [status |-> "resolved", value |-> result[name]]
    ELSE [status |-> "error", value |-> ""]

\* this.response = this.customResource.getResponseField('Payload')
response == getResponseField("Payload")

\* ------------------------------------------------------------------------
\* Specification
\* ------------------------------------------------------------------------

Next ==
    \/ \E a \in AdminSecretNames \cup {Undefined}, d \in AppSecretNames,
          v \in NextVersions : createServerlessRDS(a, d, v)
    \/ \E c \in Configs, v \in NextVersions :
          NewCdkResourceInitializer(ConstructId, c, v)
    \/ Deploy
    \/ \E p \in pending, o \in Outcomes : Complete(p, o)
    \/ \E old \in cleanup : DeleteReplaced(old)
    \/ DeleteResource

Spec == Init /\ [][Next]_vars

\* ------------------------------------------------------------------------
\* Properties
\* ------------------------------------------------------------------------

\* The last deploy was carried out (not rejected) from the Applied state.
DeployedFromApplied ==
    /\ pass.kind \in {"noop", "Create", "Update"}
    /\ pass.before.state = "Applied"

\* C1. Idempotence: from Absent, while every deploy carries the same
\* payload and version (the same call) and the first invocation succeeded,
\* the Lambda has been invoked exactly once in total, however many passes
\* there were.
C1_Idempotence ==
    (history.steady /\ history.firstOutcome = "ok") => invokeCount = 1

\* A second pass with the unchanged call ended without an event, after the
\* first one's invocation succeeded.
C1_Witness ==
    /\ history.steady
    /\ history.firstOutcome = "ok"
    /\ passes >= 2
    /\ pass.kind = "noop"
    /\ pass.before.state = "Applied"
    /\ pass.call.physicalResourceId = pass.before.physicalId

\* The case of C2: a pass from Applied whose config differs in a field
\* from the one applied, the version being the same.
C2_Case ==
    /\ DeployedFromApplied
    /\ Pairs(pass.config) # Pairs(pass.before.deployed.config)
    /\ pass.version = pass.before.deployed.version

\* C2 as stated. Change sensitivity: such a pass computes a physical id
\* different from the recorded one and issues exactly one invocation,
\* carrying the new payload.
C2_ChangeSensitivity ==
    C2_Case =>
        /\ pass.call.physicalResourceId # pass.before.physicalId
        /\ pass.issued = {Payload(pass.config)}

\* C2 as amended. Such a pass issues exactly one invocation, carrying the
\* new payload; its physical id differs from the recorded one whenever the
\* md5 prefixes of the two payloads differ.
C2_ChangeSensitivityAmended ==
    C2_Case =>
        /\ pass.issued = {Payload(pass.config)}
        /\ (SubSeq(md5Hex(Payload(pass.config)), 1, 6)
              # SubSeq(md5Hex(Payload(pass.before.deployed.config)), 1, 6)
            => pass.call.physicalResourceId # pass.before.physicalId)

\* A pass from Applied with a changed field and the same version was
\* deployed as an update, under a new physical id.
C2_Witness ==
    /\ C2_Case
    /\ pass.kind = "Update"
    /\ pass.call.physicalResourceId # pass.before.physicalId

\* C3. Version bump: a pass from Applied with another function version and
\* the byte-identical payload computes a different physical id and invokes
\* the Lambda again, with that payload.
C3_VersionBump ==
    ( /\ DeployedFromApplied
      /\ pass.version # pass.before.deployed.version
      /\ Payload(pass.config) = Payload(pass.before.deployed.config) )
    => /\ pass.call.physicalResourceId # pass.before.physicalId
       /\ pass.issued = {Payload(pass.config)}

C3_Witness ==
    /\ DeployedFromApplied
    /\ pass.version # pass.before.deployed.version
    /\ Payload(pass.config) = Payload(pass.before.deployed.config)
    /\ pass.kind = "Update"
    /\ state = "Pending"

\* C4. Deletion never invokes: no step that deletes the logical resource
\* (to Removed) or handles the delete event of a replaced physical id
\* issues an invocation; the first ends in Removed, the second leaves the
\* state as it is.
C4_DeleteNeverInvokes ==
    [][ ( \/ (state # "Removed" /\ state' = "Removed")
          \/ deletedIds' # deletedIds )
        => /\ invokeCount' = invokeCount
           /\ pending' = pending
           /\ state' \in {"Removed", state} ]_vars

\* The resource was removed after an update replaced its physical id: both
\* the old and the last physical id had their delete event.
C4_Witness ==
    /\ state = "Removed"
    /\ Cardinality(deletedIds) >= 2
    /\ invokeCount >= 2

\* C5. Failure is fatal and visible: an invocation in which the Action
\* Target failed or did not answer in time is reported FAILED and leaves
\* the resource Failed.
C5_FailureIsFatal ==
    last.outcome \in ErrorOutcomes =>
        /\ last.status = "FAILED"
        /\ last.stateAfter = "Failed"

C7_OrderIndependent ==
    ( /\ template.status = "ok"
      /\ deployed # NotDeployed
      /\ Pairs(template.config) = Pairs(deployed.config) )
    => /\ Payload(template.config) = Payload(deployed.config)
       /\ payloadHashPrefix(Payload(template.config))
            = payloadHashPrefix(Payload(deployed.config))
       /\ (template.version = deployed.version
            => ~PropertiesChanged(ResourceProperties(template.call), deployed.props))

\* C8. Serialized invocations: at most one invocation is in flight, the
\* resource is Pending exactly while one is, and each was started from
\* Absent, Applied or Failed.
C8_Serialized ==
    /\ Cardinality(pending) <= 1
    /\ (pending # {} <=> state = "Pending")
    /\ \A p \in pending : p.from \in {"Absent", "Applied", "Failed"}

\* A deploy arrived while an invocation was in flight, and was rejected.
C8_Witness ==
    /\ pass.kind = "rejected"
    /\ state = "Pending"
    /\ Cardinality(pending) = 1
    /\ pass.call # (CHOOSE p \in pending : TRUE).call

\* C9. ConfigurationError fails fast: a construction that raises the
\* ReferenceError constructs no initializer (no call, no physical id),
\* leaves no plan to deploy, and changes nothing the engine holds: no
\* invocation, no recorded physical id.
C9_FailsFast ==
    [][ (passes' = passes + 1 /\ template'.status = "ConfigurationError")
        => /\ template'.call = UndefinedCall
           /\ pc' = "idle"
           /\ UNCHANGED engine ]_vars

\* The very first construction raised the error: nothing was ever invoked
\* or recorded.
C9_Witness ==
    /\ template.status = "ConfigurationError"
    /\ passes = 1
    /\ invokeCount = 0
    /\ physicalId = ""

====
